---------------------------- MODULE Spec2Model ----------------------------
(***************************************************************************)
(* A model of DataDistributor.py: the DataDistributor dataclass, its       *)
(* constructor normalisation, slug generation, directory creation, index   *)
(* page generation, the create workflow and the HEAD/GET reachability      *)
(* probe.                                                                  *)
(*                                                                         *)
(* Strings are sequences of one-character strings, so that rstrip and      *)
(* concatenation are computed the way Python computes them.  A filesystem  *)
(* path is a sequence of names below the root <<>>.                        *)
(***************************************************************************)
EXTENDS Integers, Sequences, FiniteSets, TLC

VARIABLES
    dist,                 \* the distributors constructed so far, oldest first
    ctor_call,            \* the most recent constructor call: arguments as given
    warnings_suppressed,  \* urllib3's process-wide InsecureRequestWarning filter
    url_out,              \* the last create_data_url call and its result
    dirs,                 \* the directories that exist (paths below the root)
    index,                \* directory path -> content of its index.html, if any
    proc,                 \* caller -> the call it is in the middle of, or Idle
    ret,                  \* caller -> how its last call ended, until its next call
    granted               \* path -> number of create_data_dir calls that returned it

cfgVars == <<dist, ctor_call, warnings_suppressed, url_out>>
fsVars == <<dirs, index, granted>>
callVars == <<proc, ret>>

vars == <<dist, ctor_call, warnings_suppressed, url_out,
          dirs, index, proc, ret, granted>>

-----------------------------------------------------------------------------
(* Bounds of the model *)

\* longest base_url / index_template_url handed to the constructor
MaxUrlLen == 2

\* most distributors constructed in one run of the configuration model
MaxDists == 2

\* longest slug handed to create_data_url in the configuration model
MaxSlugArg == 1

-----------------------------------------------------------------------------
(* Strings *)

\* Python's None, kept apart from every string (no character is "<None>")
None == << "<None>" >>

\* every string over alphabet cs of length at most n
RECURSIVE StringsUpTo(_, _)
StringsUpTo(cs, n) ==
    IF n <= 0 THEN { <<>> }
    ELSE LET shorter == StringsUpTo(cs, n - 1)
         IN  shorter \cup { Append(s, c) : s \in shorter, c \in cs }

\* a slip rstrip("/") could be mistaken for: only one trailing slash is dropped
rstrip_one_slash(s) ==
    IF s # <<>> /\ s[Len(s)] = "/" THEN SubSeq(s, 1, Len(s) - 1) ELSE s

\* str.rstrip("/"): drops every trailing slash, not only one
RECURSIVE rstrip_slash(_)
rstrip_slash(s) ==
    IF s = <<>> THEN s
    ELSE IF s[Len(s)] = "/" THEN rstrip_slash(SubSeq(s, 1, Len(s) - 1))
    ELSE s

\* Python truthiness of an optional string: None and "" are both falsy
Truthy(s) == s # None /\ s # <<>>

EndsInSlash(s) == s # None /\ s # <<>> /\ s[Len(s)] = "/"

-----------------------------------------------------------------------------
(* Construction: the dataclass fields and __post_init__ *)

BaseDirectory == << <<"p">>, <<"d">> >>

\* constructor arguments of the model
UrlArgs == StringsUpTo({"u", "/"}, MaxUrlLen)
TemplateArgs == {None, <<"t", "/", "/">>}

\* default of the slug_length field
DefaultSlugLength == 32

\* a constructor whose disable_warnings call has no effect
disable_warnings_no_effect(suppressed) == suppressed

\* urllib3.disable_warnings(InsecureRequestWarning) only ever adds an "ignore"
\* filter; nothing in the module removes it again
disable_warnings(suppressed) == TRUE

\* the fields as stored once __post_init__ has run
post_init(base_directory, base_url, index_template_url, slug_length, suppress) ==
    [base_directory |-> base_directory,
     base_url |-> rstrip_slash(base_url),
     index_template_url |->
         IF index_template_url # None
         THEN rstrip_slash(index_template_url)
         ELSE None,
     slug_length |-> slug_length,
     suppress_insecure_warning |-> suppress]

\* DataDistributor(...): the generated __init__ followed by __post_init__
Construct(base_url, index_template_url, suppress) ==
    /\ Len(dist) < MaxDists
    /\ dist' = Append(dist, post_init(BaseDirectory, base_url, index_template_url,
                                     DefaultSlugLength, suppress))
    /\ ctor_call' = [called |-> TRUE, base_url |-> base_url,
                     index_template_url |-> index_template_url,
                     suppress_insecure_warning |-> suppress]
    /\ warnings_suppressed' =
           IF suppress THEN disable_warnings(warnings_suppressed)
           ELSE warnings_suppressed
    /\ UNCHANGED <<url_out, fsVars, callVars>>

\* create_data_url: f"{self.base_url}/{slug}"
create_data_url(d, slug) == d.base_url \o <<"/">> \o slug

NoCall == [called |-> FALSE]

CreateDataUrl(i, slug) ==
    /\ i \in DOMAIN dist
    /\ url_out' = [called |-> TRUE, dist |-> i, slug |-> slug,
                   url |-> create_data_url(dist[i], slug)]
    /\ UNCHANGED <<dist, ctor_call, warnings_suppressed, fsVars, callVars>>

SlugArgs == StringsUpTo({"a"}, MaxSlugArg)

InitCfg ==
    /\ dist = <<>>
    /\ ctor_call = NoCall
    /\ warnings_suppressed = FALSE
    /\ url_out = NoCall
    /\ dirs = { <<>> }
    /\ index = <<>>
    /\ proc = <<>>
    /\ ret = <<>>
    /\ granted = <<>>

NextCfg ==
    \/ \E b \in UrlArgs, t \in TemplateArgs, s \in BOOLEAN : Construct(b, t, s)
    \/ \E i \in 1..MaxDists, slug \in SlugArgs : CreateDataUrl(i, slug)

SpecCfg == InitCfg /\ [][NextCfg]_vars

-----------------------------------------------------------------------------
(* The filesystem as pathlib sees it *)

Root == <<>>

\* Path.parent; the root is its own parent
Parent(p) == IF p = Root THEN Root ELSE SubSeq(p, 1, Len(p) - 1)

\* base_directory / slug, for a slug without "/" or ".": joining the empty
\* string gives the directory itself
PathJoin(p, name) == IF name = <<>> THEN p ELSE Append(p, name)

\* a mkdir that is not exclusive: an existing directory is no error
os_mkdir_not_exclusive(ds, p) ==
    IF Parent(p) \notin ds THEN "ENOENT" ELSE "OK"

\* os.mkdir on the directory tree ds
os_mkdir(ds, p) ==
    IF p \in ds THEN "EEXIST"
    ELSE IF Parent(p) \notin ds THEN "ENOENT"
    ELSE "OK"

NoError == "NoError"

MkdirFrame(path, parents, exist_ok) ==
    [path |-> path, parents |-> parents, exist_ok |-> exist_ok]

\* Path.mkdir, one os.mkdir at a time.  todo holds the pending Path.mkdir calls,
\* innermost last:
\*     try: os.mkdir(self)
\*     except FileNotFoundError:
\*         if not parents or self.parent == self: raise
\*         self.parent.mkdir(parents=True, exist_ok=True)
\*         self.mkdir(parents=False, exist_ok=exist_ok)
\*     except OSError:
\*         if not exist_ok or not self.is_dir(): raise
path_mkdir(ds, todo) ==
    LET f == todo[Len(todo)]
        rest == SubSeq(todo, 1, Len(todo) - 1)
        r == os_mkdir(ds, f.path)
    IN  CASE r = "OK" ->
                [dirs |-> ds \cup {f.path}, todo |-> rest, exc |-> NoError]
          [] r = "ENOENT" ->
                IF ~f.parents \/ Parent(f.path) = f.path
                THEN [dirs |-> ds, todo |-> <<>>, exc |-> "FileNotFoundError"]
                ELSE [dirs |-> ds,
                      todo |-> rest \o
                               << MkdirFrame(f.path, FALSE, f.exist_ok),
                                  MkdirFrame(Parent(f.path), TRUE, TRUE) >>,
                      exc |-> NoError]
          [] r = "EEXIST" ->
                IF ~f.exist_ok \/ f.path \notin ds
                THEN [dirs |-> ds, todo |-> <<>>, exc |-> "FileExistsError"]
                ELSE [dirs |-> ds, todo |-> rest, exc |-> NoError]

Granted(p) == IF p \in DOMAIN granted THEN granted[p] ELSE 0

HasIndex(p) == p \in DOMAIN index

-----------------------------------------------------------------------------
(* Callers *)

Callers == {1, 2}

Idle == [op |-> "idle"]
NoRet == [outcome |-> "none"]

\* the distributor caller c works with
Dist(c) == dist[c]

\* the call of caller c ends: it returns value, or raises exc
Finish(c, call, outcome, value, exc) ==
    /\ proc' = [proc EXCEPT ![c] = Idle]
    /\ ret' = [ret EXCEPT ![c] =
                  [call |-> call, outcome |-> outcome, value |-> value, exc |-> exc]]

Returns(c, call, value) == Finish(c, call, "returned", value, NoError)
Raises(c, call, exc) == Finish(c, call, "raised", <<>>, exc)

-----------------------------------------------------------------------------
(* create_data_dir *)

\* a create_data_dir that tolerates an existing directory
CreateDataDirMkdirExistOk(path) == MkdirFrame(path, TRUE, TRUE)

\* path.mkdir(parents=True, exist_ok=False)
CreateDataDirMkdir(path) == MkdirFrame(path, TRUE, FALSE)

CallCreateDataDir(c, slug) ==
    /\ proc[c] = Idle
    /\ LET path == PathJoin(Dist(c).base_directory, slug)
       IN  proc' = [proc EXCEPT ![c] =
                       [op |-> "create_data_dir", pc |-> "mkdir",
                        slug |-> slug, path |-> path,
                        todo |-> << CreateDataDirMkdir(path) >>,
                        granted_before |-> Granted(path) > 0,
                        base_before |-> Dist(c).base_directory \in dirs]]
    /\ ret' = [ret EXCEPT ![c] = NoRet]
    /\ UNCHANGED <<cfgVars, fsVars>>

\* a create that never writes the index
AfterCreateDataDirNoIndex(call) ==
    [call EXCEPT !.pc = "create_data_url",
                 !.todo = <<>>,
                 !.trace = Append(call.trace, "create_data_dir")]

\* where create goes once create_data_dir has returned
AfterCreateDataDir(call) ==
    [call EXCEPT !.pc = IF call.with_index THEN "write_index"
                        ELSE "create_data_url",
                 !.todo = <<>>,
                 !.trace = Append(call.trace, "create_data_dir")]

\* the next os.mkdir of the Path.mkdir that create_data_dir started
MkdirStep(c) ==
    /\ proc[c] # Idle
    /\ proc[c].pc = "mkdir"
    /\ LET call == proc[c]
           r == path_mkdir(dirs, call.todo)
       IN  /\ dirs' = r.dirs
           /\ IF r.exc # NoError
              THEN Raises(c, call, r.exc) /\ UNCHANGED granted
              ELSE IF r.todo # <<>>
              THEN /\ proc' = [proc EXCEPT ![c].todo = r.todo]
                   /\ UNCHANGED <<ret, granted>>
              ELSE /\ granted' = (call.path :> (Granted(call.path) + 1)) @@ granted
                   /\ IF call.op = "create_data_dir"
                      THEN Returns(c, [call EXCEPT !.todo = <<>>], call.path)
                      ELSE /\ proc' = [proc EXCEPT ![c] = AfterCreateDataDir(call)]
                           /\ UNCHANGED ret
    /\ UNCHANGED <<cfgVars, index>>

-----------------------------------------------------------------------------
(* The network as requests sees it *)

\* what one request comes back with: a response, or a requests.RequestException
NetResponse(status, text) ==
    [kind |-> "response", status |-> status, text |-> text, exc |-> NoError]
NetException(exc) ==
    [kind |-> "exception", status |-> 0, text |-> None, exc |-> exc]

\* the outcome classes of a fetch
NetClass(net) ==
    IF net.kind = "exception" THEN net.exc
    ELSE IF net.status < 400 THEN "success"
    ELSE "http_error"

\* Response.raise_for_status raises HTTPError for 4xx and 5xx
raise_for_status(status) == 400 <= status /\ status < 600

\* verify=None is treated as verify=True
VerifyOrTrue(verify) == IF verify = "None" THEN "True" ELSE verify

\* timeout of the template GET
TemplateTimeout == 5

\* the exceptions of the model are all subclasses of requests.RequestException
IsRequestException(exc) ==
    exc \in {"Timeout", "ConnectionError", "SSLError", "HTTPError"}

NoFetch == [value |-> None, reqs |-> <<>>, exc |-> NoError]

TemplateGet(d, verify) ==
    [method |-> "GET", url |-> d.index_template_url,
     timeout |-> TemplateTimeout, verify |-> VerifyOrTrue(verify)]

\* a read_index_template without raise_for_status: every response is content
read_index_template_no_status_check(d, verify, net) ==
    IF ~Truthy(d.index_template_url) THEN NoFetch
    ELSE [value |-> IF net.kind = "exception" THEN None ELSE net.text,
          reqs |-> << TemplateGet(d, verify) >>, exc |-> NoError]

\* a read_index_template without the try/except around the GET
read_index_template_uncaught(d, verify, net) ==
    IF ~Truthy(d.index_template_url) THEN NoFetch
    ELSE [value |-> IF net.kind = "exception" \/ raise_for_status(net.status)
                    THEN None ELSE net.text,
          reqs |-> << TemplateGet(d, verify) >>,
          exc |-> IF net.kind = "exception" THEN net.exc
                  ELSE IF raise_for_status(net.status) THEN "HTTPError"
                  ELSE NoError]

\* read_index_template: the value returned, the requests issued on the way and
\* the exception that leaves the method (none: RequestException is caught, and
\* HTTPError, which raise_for_status raises, is one)
read_index_template(d, verify, net) ==
    IF ~Truthy(d.index_template_url) THEN NoFetch
    ELSE LET raised == IF net.kind = "exception" THEN net.exc
                       ELSE IF raise_for_status(net.status) THEN "HTTPError"
                       ELSE NoError
         IN  [value |-> IF raised # NoError THEN None ELSE net.text,
              reqs |-> << TemplateGet(d, verify) >>,
              exc |-> IF IsRequestException(raised) THEN NoError ELSE raised]

-----------------------------------------------------------------------------
(* write_index *)

DefaultTitle == <<"D", "a", "t", "a">>
DefaultBody ==
    << "<h1>Data Placeholder</h1>\n",
       "<p>This page was automatically generated.</p>\n" >>

\* the fallback document around title and body_html
StubHead ==
    << "<!DOCTYPE html>\n<html lang=\"en\">\n  <head>\n",
       "    <meta charset=\"utf-8\">\n",
       "    <meta name=\"robots\" content=\"noindex, nofollow\">\n",
       "    <title>" >>
StubMid == << "</title>\n  </head>\n  <body>\n" >>
StubTail == << "\n  </body>\n</html>\n" >>

Stub(title, body_html) == StubHead \o title \o StubMid \o body_html \o StubTail

\* a write_index whose defaults replace None only
OrDefaultNoneOnly(x, default) == IF x = None THEN default ELSE x

\* x or default: the default replaces None and the empty string alike
OrDefault(x, default) == IF Truthy(x) THEN x ELSE default

\* the html write_index decides on, the requests issued and the network answer
\* they got
WriteIndexHtml(d, title, body_html, verify, net) ==
    LET fetched == IF Truthy(d.index_template_url)
                   THEN read_index_template(d, verify, net)
                   ELSE NoFetch
    IN  [html |-> IF fetched.value = None
                  THEN Stub(OrDefault(title, DefaultTitle),
                            OrDefault(body_html, DefaultBody))
                  ELSE fetched.value,
         reqs |-> fetched.reqs,
         exc |-> fetched.exc,
         fetch |-> IF fetched.reqs = <<>> THEN "not_configured"
                   ELSE NetClass(net),
         net |-> IF fetched.reqs = <<>> THEN NetException("no request")
                 ELSE net]

CallWriteIndex(c, directory, title, body_html) ==
    /\ proc[c] = Idle
    /\ proc' = [proc EXCEPT ![c] =
                   [op |-> "write_index", pc |-> "write_index",
                    path |-> directory, title |-> title,
                    body_html |-> body_html, verify |-> "None",
                    html |-> None, reqs |-> <<>>, fetch |-> "none",
                    net |-> NetException("no request"),
                    had_index |-> HasIndex(directory),
                    trace |-> <<>>]]
    /\ ret' = [ret EXCEPT ![c] = NoRet]
    /\ UNCHANGED <<cfgVars, fsVars>>

\* write_index up to the point where html is decided; net is what the network
\* answers if the template is asked for
WriteIndexDecide(c, net) ==
    /\ proc[c] # Idle
    /\ proc[c].pc = "write_index"
    /\ LET call == proc[c]
           w == WriteIndexHtml(Dist(c), call.title, call.body_html,
                               call.verify, net)
           next == [call EXCEPT !.pc = "open", !.html = w.html,
                                !.reqs = w.reqs, !.fetch = w.fetch,
                                !.net = w.net]
       IN  IF w.exc # NoError
           THEN Raises(c, [next EXCEPT !.pc = "write_index"], w.exc)
           ELSE proc' = [proc EXCEPT ![c] = next] /\ UNCHANGED ret
    /\ UNCHANGED <<cfgVars, fsVars>>

\* Path.write_text, first half: open(index_path, "w") creates the file or
\* truncates the one that is there.  fault is what the filesystem refuses with.
WriteTextOpen(c, fault) ==
    /\ proc[c] # Idle
    /\ proc[c].pc = "open"
    /\ LET call == proc[c]
       IN  IF call.path \notin dirs
           THEN Raises(c, call, "FileNotFoundError") /\ UNCHANGED index
           ELSE IF fault # NoError
           THEN Raises(c, call, fault) /\ UNCHANGED index
           ELSE /\ index' = (call.path :> <<>>) @@ index
                /\ proc' = [proc EXCEPT ![c].pc = "write"]
                /\ UNCHANGED ret
    /\ UNCHANGED <<cfgVars, dirs, granted>>

\* what write_index leaves the caller with once the text is written
AfterWriteIndex(call) ==
    [call EXCEPT !.pc = "create_data_url",
                 !.trace = Append(call.trace, "write_index")]

\* Path.write_text, second half: the text is written and the file closed.  A
\* write the filesystem refuses (disk full) leaves the file as open made it.
WriteTextWrite(c, fault) ==
    /\ proc[c] # Idle
    /\ proc[c].pc = "write"
    /\ LET call == proc[c]
       IN  IF fault # NoError
           THEN Raises(c, call, fault) /\ UNCHANGED index
           ELSE /\ index' = (call.path :> call.html) @@ index
                /\ IF call.op = "write_index"
                   THEN Returns(c, [call EXCEPT !.pc = "done"],
                                Append(call.path, <<"index.html">>))
                   ELSE /\ proc' = [proc EXCEPT ![c] = AfterWriteIndex(call)]
                        /\ UNCHANGED ret
    /\ UNCHANGED <<cfgVars, dirs, granted>>

-----------------------------------------------------------------------------
(* make_slug and create *)

\* the alphabet slugs are drawn from (one letter stands for the 64, so that
\* two slugs of the same length always collide)
CHARSET == {"a"}

\* ''.join(secrets.choice(CHARSET) for _ in range(length)): range(length) is
\* empty for length <= 0, and so is the slug
SlugsOfLength(n) == { s \in StringsUpTo(CHARSET, n) : Len(s) = n \/ n <= 0 }

\* make_slug(length); an absent length is <<>>, a given one <<n>>
make_slug(d, length) ==
    SlugsOfLength(IF length = <<>> THEN d.slug_length ELSE length[1])

CallCreate(c, length, with_index, index_title, index_body_html) ==
    /\ proc[c] = Idle
    /\ \E slug \in make_slug(Dist(c), length) :
           LET path == PathJoin(Dist(c).base_directory, slug)
           IN  proc' = [proc EXCEPT ![c] =
                   [op |-> "create", pc |-> "mkdir",
                    length |-> length, with_index |-> with_index,
                    slug |-> slug, path |-> path,
                    todo |-> << CreateDataDirMkdir(path) >>,
                    granted_before |-> Granted(path) > 0,
                    base_before |-> Dist(c).base_directory \in dirs,
                    title |-> index_title, body_html |-> index_body_html,
                    verify |-> "None",
                    html |-> None, reqs |-> <<>>, fetch |-> "none",
                    net |-> NetException("no request"),
                    had_index |-> HasIndex(path),
                    trace |-> << "make_slug" >>]]
    /\ ret' = [ret EXCEPT ![c] = NoRet]
    /\ UNCHANGED <<cfgVars, fsVars>>

\* url = self.create_data_url(slug); return slug, path, url
CreateReturn(c) ==
    /\ proc[c] # Idle
    /\ proc[c].pc = "create_data_url"
    /\ LET call == proc[c]
       IN  Returns(c, [call EXCEPT !.pc = "done",
                                   !.trace = Append(call.trace, "create_data_url")],
                   [slug |-> call.slug, path |-> call.path,
                    url |-> create_data_url(Dist(c), call.slug)])
    /\ UNCHANGED <<cfgVars, fsVars>>

-----------------------------------------------------------------------------
(* Two callers on one base_directory: SpecDir *)

\* longest slug in the models of the filesystem
MaxSlugLen == 1

\* base_directory, with or without its parent, may be missing at the start
InitialTrees ==
    { {Root}, {Root, Parent(BaseDirectory)},
      {Root, Parent(BaseDirectory), BaseDirectory} }

BaseUrlArg == <<"u", "/">>

\* the state both filesystem models start from: one distributor per caller,
\* all on the same base_directory, and nothing created yet
InitFs(templates, slug_lengths) ==
    /\ \E t \in templates, n \in slug_lengths :
           dist = << post_init(BaseDirectory, BaseUrlArg, t[1], n, FALSE),
                     post_init(BaseDirectory, BaseUrlArg, t[2], n, FALSE) >>
    /\ ctor_call = NoCall
    /\ warnings_suppressed = FALSE
    /\ url_out = NoCall
    /\ dirs \in InitialTrees
    /\ index = <<>>
    /\ proc = [c \in Callers |-> Idle]
    /\ ret = [c \in Callers |-> NoRet]
    /\ granted = <<>>

DirSlugs == StringsUpTo(CHARSET, MaxSlugLen)

DirNet == { NetResponse(200, <<"T">>), NetException("Timeout") }

\* one distributor has a template URL, the other has none
InitDir == InitFs({ << <<"t", "/">>, None >> }, {DefaultSlugLength})

NextDir ==
    \E c \in Callers :
        \/ \E slug \in DirSlugs : CallCreateDataDir(c, slug)
        \/ MkdirStep(c)
        \/ \E p \in DOMAIN granted : CallWriteIndex(c, p, None, None)
        \/ \E net \in DirNet : WriteIndexDecide(c, net)
        \/ WriteTextOpen(c, NoError)
        \/ WriteTextWrite(c, NoError)

SpecDir == InitDir /\ [][NextDir]_vars

-----------------------------------------------------------------------------
(* One caller running create, the filesystem and the network failing as they
   may: Spec *)

\* the length argument: absent, or any integer from -1 up
Lengths == { <<>> } \cup { <<n>> : n \in -1..MaxSlugLen }

\* index_template_url as given: absent, "/" (stored as ""), or a URL
CreateTemplates == { <<None, None>>, << <<"/">>, <<"/">> >>,
                     << <<"t", "/">>, <<"t", "/">> >> }

\* index_title and index_body_html: both absent, or both given
CreateIndexArgs == { <<None, None>>, << <<"t">>, <<"b">> >> }

CreateNet ==
    { NetResponse(st, text) : st \in {200, 404}, text \in { <<>>, <<"T">> } }
        \cup { NetException("Timeout"), NetException("ConnectionError") }

OpenFaults == {NoError, "PermissionError"}
WriteFaults == {NoError, "OSError"}

Init == InitFs(CreateTemplates, 1..MaxSlugLen)

Next ==
    \/ \E length \in Lengths : CallCreate(1, length, FALSE, None, None)
    \/ \E length \in Lengths, a \in CreateIndexArgs :
           CallCreate(1, length, TRUE, a[1], a[2])
    \/ MkdirStep(1)
    \/ \E net \in CreateNet : WriteIndexDecide(1, net)
    \/ \E fault \in OpenFaults : WriteTextOpen(1, fault)
    \/ \E fault \in WriteFaults : WriteTextWrite(1, fault)
    \/ CreateReturn(1)

Spec == Init /\ [][Next]_vars

-----------------------------------------------------------------------------
(* One caller running write_index on base_directory again and again:
   SpecIndex *)

Titles == {None, <<>>, <<"t">>}
Bodies == {None, <<>>, <<"b">>}

IndexNet ==
    { NetResponse(st, text) : st \in {200, 302, 404, 500},
                              text \in { <<>>, <<"T">> } }
        \cup { NetException("Timeout"), NetException("ConnectionError") }

InitIndex == InitFs(CreateTemplates, {DefaultSlugLength})

NextIndex ==
    \/ \E title \in Titles, body_html \in Bodies :
           CallWriteIndex(1, BaseDirectory, title, body_html)
    \/ \E net \in IndexNet : WriteIndexDecide(1, net)
    \/ \E fault \in OpenFaults : WriteTextOpen(1, fault)
    \/ \E fault \in WriteFaults : WriteTextWrite(1, fault)

SpecIndex == InitIndex /\ [][NextIndex]_vars

-----------------------------------------------------------------------------
(* read_index_template and url_exists called on their own: SpecNet *)

CallReadIndexTemplate(c, verify, net) ==
    /\ proc[c] = Idle
    /\ LET r == read_index_template(Dist(c), verify, net)
           call == [op |-> "read_index_template", pc |-> "done",
                    verify |-> verify, reqs |-> r.reqs,
                    net |-> IF r.reqs = <<>> THEN NetException("no request")
                            ELSE net]
       IN  IF r.exc # NoError
           THEN Raises(c, call, r.exc)
           ELSE Returns(c, call, r.value)
    /\ UNCHANGED <<cfgVars, fsVars>>

\* default of url_exists' timeout, in seconds
DefaultProbeTimeout == 3

\* a url_exists that gives up when HEAD answers with an error status
AfterHeadNoFallback(net) ==
    IF net.kind = "response"
    THEN IF net.status < 400 THEN "return_true" ELSE "return_false"
    ELSE IF IsRequestException(net.exc) THEN "get" ELSE "raise"

\* what url_exists does with the answer to HEAD
AfterHead(net) ==
    IF net.kind = "response"
    THEN IF net.status < 400 THEN "return_true" ELSE "get"
    ELSE IF IsRequestException(net.exc) THEN "get" ELSE "raise"

\* what url_exists does with the answer to GET
AfterGet(net) ==
    IF net.kind = "response"
    THEN IF net.status < 400 THEN "return_true" ELSE "return_false"
    ELSE IF IsRequestException(net.exc) THEN "return_false" ELSE "raise"

CallUrlExists(c, slug, timeout, verify) ==
    /\ proc[c] = Idle
    /\ proc' = [proc EXCEPT ![c] =
                   [op |-> "url_exists", pc |-> "head", slug |-> slug,
                    timeout_arg |-> timeout, verify_arg |-> verify,
                    url |-> create_data_url(Dist(c), slug),
                    verify |-> VerifyOrTrue(verify),
                    reqs |-> <<>>, nets |-> <<>>]]
    /\ ret' = [ret EXCEPT ![c] = NoRet]
    /\ UNCHANGED <<cfgVars, fsVars>>

\* the call goes on as next says
UrlExistsGoOn(c, call, next, exc) ==
    CASE next = "return_true" -> Returns(c, call, TRUE)
      [] next = "return_false" -> Returns(c, call, FALSE)
      [] next = "get" -> proc' = [proc EXCEPT ![c] = [call EXCEPT !.pc = "get"]]
                         /\ UNCHANGED ret
      [] next = "raise" -> Raises(c, call, exc)

\* requests.head(url, allow_redirects=True, timeout=timeout, verify=verify)
UrlExistsHead(c, net) ==
    /\ proc[c] # Idle
    /\ proc[c].pc = "head"
    /\ LET call == proc[c]
           req == [method |-> "HEAD", url |-> call.url,
                   timeout |-> call.timeout_arg, verify |-> call.verify,
                   allow_redirects |-> TRUE, stream |-> FALSE]
           sent == [call EXCEPT !.reqs = Append(call.reqs, req),
                                !.nets = Append(call.nets, net)]
       IN  UrlExistsGoOn(c, sent, AfterHead(net), net.exc)
    /\ UNCHANGED <<cfgVars, fsVars>>

\* requests.get(url, stream=True, timeout=timeout, verify=verify)
UrlExistsGet(c, net) ==
    /\ proc[c] # Idle
    /\ proc[c].pc = "get"
    /\ LET call == proc[c]
           req == [method |-> "GET", url |-> call.url,
                   timeout |-> call.timeout_arg, verify |-> call.verify,
                   allow_redirects |-> TRUE, stream |-> TRUE]
           sent == [call EXCEPT !.reqs = Append(call.reqs, req),
                                !.nets = Append(call.nets, net),
                                !.pc = "done"]
       IN  UrlExistsGoOn(c, sent, AfterGet(net), net.exc)
    /\ UNCHANGED <<cfgVars, fsVars>>

\* status codes on both sides of 400 and of each class from 2xx to 5xx
Statuses == {200, 302, 399, 400, 404, 405, 500, 599}

NetAnswers ==
    { NetResponse(st, text) : st \in Statuses, text \in { <<>>, <<"T">> } }
        \cup { NetException(e) : e \in {"Timeout", "ConnectionError", "SSLError"} }

\* an answer to a probe: the body plays no part
ProbeAnswers == { net \in NetAnswers : net.text \in {None, <<>>} }

Verifies == {"None", "True", "False", "/ca.pem"}

ProbeTimeouts == {DefaultProbeTimeout, 1}

InitNet == InitFs(CreateTemplates, {DefaultSlugLength})

NextNet ==
    \/ \E verify \in Verifies, net \in NetAnswers :
           CallReadIndexTemplate(1, verify, net)
    \/ \E slug \in DirSlugs, timeout \in ProbeTimeouts, verify \in Verifies :
           CallUrlExists(1, slug, timeout, verify)
    \/ \E net \in ProbeAnswers : UrlExistsHead(1, net)
    \/ \E net \in ProbeAnswers : UrlExistsGet(1, net)

SpecNet == InitNet /\ [][NextNet]_vars

-----------------------------------------------------------------------------
(* Claims about construction and URLs, checked under SpecCfg *)

AllSlashes(s) == \A k \in 1..Len(s) : s[k] = "/"

\* what is stored is the argument minus a suffix made of slashes only
StoredFrom(stored, arg) ==
    /\ Len(stored) <= Len(arg)
    /\ SubSeq(arg, 1, Len(stored)) = stored
    /\ AllSlashes(SubSeq(arg, Len(stored) + 1, Len(arg)))

StoredNeverEndInSlash ==
    \A i \in DOMAIN dist :
        /\ ~EndsInSlash(dist[i].base_url)
        /\ ~EndsInSlash(dist[i].index_template_url)

StoredFromLastCall ==
    ctor_call.called =>
        LET d == dist[Len(dist)]
        IN  /\ StoredFrom(d.base_url, ctor_call.base_url)
            /\ IF ctor_call.index_template_url = None
               THEN d.index_template_url = None
               ELSE StoredFrom(d.index_template_url, ctor_call.index_template_url)

UrlIsBaseSlashSlug ==
    url_out.called =>
        LET b == dist[url_out.dist].base_url
            u == url_out.url
        IN  /\ Len(u) = Len(b) + 1 + Len(url_out.slug)
            /\ SubSeq(u, 1, Len(b)) = b
            /\ u[Len(b) + 1] = "/"
            /\ SubSeq(u, Len(b) + 2, Len(u)) = url_out.slug
            /\ (Len(b) > 0 => u[Len(b)] # "/")

StoredFieldsKept ==
    \A i \in DOMAIN dist : i \in DOMAIN dist' /\ dist'[i] = dist[i]

\* C8: whatever number of trailing slashes the constructor is given, the stored
\* base_url and index_template_url are the arguments without them and never end
\* in "/"; no later step changes the stored fields of a constructed distributor;
\* and create_data_url(slug) is the stored base_url, one "/", then the slug.
C8_StoredUrlsNormalised ==
    /\ [](StoredNeverEndInSlash /\ StoredFromLastCall /\ UrlIsBaseSlashSlug)
    /\ [][StoredFieldsKept]_vars

\* a base_url given with two trailing slashes and a template URL given with
\* trailing slashes were stored, and a URL was then built from the stored base
C8_Witness ==
    /\ ctor_call.called
    /\ Len(ctor_call.base_url) >= 2
    /\ ctor_call.base_url[Len(ctor_call.base_url)] = "/"
    /\ ctor_call.base_url[Len(ctor_call.base_url) - 1] = "/"
    /\ EndsInSlash(ctor_call.index_template_url)
    /\ url_out.called
    /\ url_out.dist = Len(dist)
    /\ url_out.slug # <<>>

LastConstructed == dist[Len(dist)]

\* C9 as stated: the process-wide suppression state equals the flag of the most
\* recently constructed distributor (last write wins).
C9_LastWriteWins ==
    dist # <<>> =>
        warnings_suppressed = LastConstructed.suppress_insecure_warning

\* C9 as the code has it: the suppression is switched on by any construction
\* with the flag set and is never switched off again, so the state is "some
\* distributor constructed so far had the flag set".
C9_SuppressionIsSticky ==
    warnings_suppressed =
        (\E i \in DOMAIN dist : dist[i].suppress_insecure_warning)

\* a distributor with the flag unset was constructed after one with it set
C9_Witness ==
    /\ Len(dist) >= 2
    /\ dist[Len(dist) - 1].suppress_insecure_warning
    /\ ~LastConstructed.suppress_insecure_warning
    /\ warnings_suppressed

-----------------------------------------------------------------------------
(* Claims about directory creation, checked under SpecDir *)

FinishedCreateDataDir(c) ==
    ret[c].outcome # "none" /\ ret[c].call.op = "create_data_dir"

FailedAlreadyExists(c) ==
    ret[c].outcome = "raised" /\ ret[c].exc = "FileExistsError"

\* a create_data_dir call for a slug whose directory an earlier create_data_dir
\* call had returned ends with FileExistsError
LaterCallFails ==
    \A c \in Callers :
        FinishedCreateDataDir(c) /\ ret[c].call.granted_before
            => FailedAlreadyExists(c)

\* no step of such a call changes any directory or any index.html
LaterCallTouchesNothing ==
    \A c \in Callers :
        (/\ proc[c] # Idle
         /\ proc[c].op = "create_data_dir"
         /\ proc[c].granted_before
         /\ proc'[c] # proc[c])
            => dirs' = dirs /\ index' = index

\* C1: once create_data_dir(slug) has succeeded, every later create_data_dir
\* with the same slug fails with FileExistsError, and the directory of the first
\* call, with the index.html written into it, is left as it was.
C1_SecondCreateFails ==
    [] LaterCallFails /\ [][LaterCallTouchesNothing]_vars

\* a later call for a granted slug has failed, and the directory held an
\* index.html, which is still the one written before the call
C1_Witness ==
    \E c \in Callers :
        /\ FinishedCreateDataDir(c)
        /\ ret[c].call.granted_before
        /\ FailedAlreadyExists(c)
        /\ ret[c].call.slug # <<>>
        /\ HasIndex(ret[c].call.path)
        /\ index[ret[c].call.path] # <<>>

\* C2: however the steps of two concurrent create_data_dir calls interleave,
\* no directory is returned to more than one call; a call that does not return
\* its path fails with FileExistsError, also when base_directory has to be
\* created on the way.
C2_AtMostOneOwner ==
    /\ \A p \in DOMAIN granted : granted[p] <= 1
    /\ \A c \in Callers :
           FinishedCreateDataDir(c) =>
               \/ /\ ret[c].outcome = "returned"
                  /\ ret[c].value = ret[c].call.path
                  /\ ret[c].value \in dirs
                  /\ Granted(ret[c].value) = 1
               \/ FailedAlreadyExists(c)

\* two calls for the same slug started while base_directory was missing and
\* before either had the directory; one returned it and the other failed
C2_Witness ==
    /\ FinishedCreateDataDir(1)
    /\ FinishedCreateDataDir(2)
    /\ ret[1].call.path = ret[2].call.path
    /\ ret[1].call.slug # <<>>
    /\ ~ret[1].call.granted_before /\ ~ret[2].call.granted_before
    /\ ~ret[1].call.base_before /\ ~ret[2].call.base_before
    /\ ret[1].outcome = "returned"
    /\ FailedAlreadyExists(2)

-----------------------------------------------------------------------------
(* Claims about write_index, checked under SpecIndex *)

WroteIndex(c) ==
    /\ ret[c].outcome = "returned"
    /\ ret[c].call.op = "write_index"

\* the fetch of the call gave content: a template URL is set and the GET came
\* back with a status that is no error
FetchedContent(c) ==
    /\ Truthy(Dist(c).index_template_url)
    /\ ret[c].call.net.kind = "response"
    /\ ret[c].call.net.status < 400

\* C5 as stated: the file holds the fetched content if there is any; otherwise
\* the stub with the supplied title and body, the defaults standing in only for
\* an argument that was not supplied.
C5_DefaultsOnlyWhenAbsent ==
    \A c \in Callers :
        WroteIndex(c) =>
            LET call == ret[c].call
            IN  index[call.path] =
                    IF FetchedContent(c) THEN call.net.text
                    ELSE Stub(IF call.title = None THEN DefaultTitle
                              ELSE call.title,
                              IF call.body_html = None THEN DefaultBody
                              ELSE call.body_html)

\* C5 as the code has it: the defaults also stand in for a title or body given
\* as the empty string; a non-empty title or body is embedded as given, and
\* whatever index.html was there before is replaced.
C5_DefaultsWhenAbsentOrEmpty ==
    \A c \in Callers :
        WroteIndex(c) =>
            LET call == ret[c].call
            IN  index[call.path] =
                    IF FetchedContent(c) THEN call.net.text
                    ELSE Stub(IF call.title \in {None, <<>>} THEN DefaultTitle
                              ELSE call.title,
                              IF call.body_html \in {None, <<>>} THEN DefaultBody
                              ELSE call.body_html)

\* an index.html was overwritten by a call given an empty title and a body
C5_Witness ==
    /\ WroteIndex(1)
    /\ ret[1].call.had_index
    /\ ret[1].call.title = <<>>
    /\ ret[1].call.body_html = <<"b">>
    /\ ret[1].call.fetch = "http_error"
    /\ index[ret[1].call.path] = Stub(DefaultTitle, <<"b">>)

-----------------------------------------------------------------------------
(* Claims about create, checked under Spec *)

FinishedCreate(c) == ret[c].outcome # "none" /\ ret[c].call.op = "create"

ReturnedCreate(c) == FinishedCreate(c) /\ ret[c].outcome = "returned"

\* what the filesystem raises in the model
FilesystemErrors ==
    {"FileExistsError", "FileNotFoundError", "PermissionError", "OSError"}

\* s is t followed by "/" followed by u
IsJoined(s, t, u) ==
    /\ Len(s) = Len(t) + 1 + Len(u)
    /\ SubSeq(s, 1, Len(t)) = t
    /\ s[Len(t) + 1] = "/"
    /\ SubSeq(s, Len(t) + 2, Len(s)) = u

\* C6: a create(with_index=True) that the filesystem lets through returns its
\* triple whatever the template fetch came to: no exception other than the
\* filesystem's ends create, and on return the path is a directory holding an
\* index.html with the whole page and url is base_url + "/" + slug.
C6_CreateWithIndexReturns ==
    \A c \in Callers :
        /\ FinishedCreate(c) /\ ret[c].outcome = "raised"
               => ret[c].exc \in FilesystemErrors
        /\ ReturnedCreate(c) /\ ret[c].call.with_index =>
               /\ ret[c].value.path \in dirs
               /\ HasIndex(ret[c].value.path)
               /\ index[ret[c].value.path] = ret[c].call.html
               /\ ret[c].call.html # None
               /\ ret[c].value.slug = ret[c].call.slug
               /\ IsJoined(ret[c].value.url, Dist(c).base_url, ret[c].value.slug)

\* a create(with_index=True) returned although the template GET timed out
C6_Witness ==
    /\ ReturnedCreate(1)
    /\ ret[1].call.with_index
    /\ ret[1].call.fetch = "Timeout"
    /\ ret[1].call.slug # <<>>
    /\ HasIndex(ret[1].value.path)

\* the index write of a create failed: at open, or at the write after it
IndexWriteFailed(c) ==
    /\ FinishedCreate(c)
    /\ ret[c].outcome = "raised"
    /\ ret[c].call.pc \in {"open", "write"}

StepsInOrder(c) ==
    ReturnedCreate(c) =>
        ret[c].call.trace =
            IF ret[c].call.with_index
            THEN << "make_slug", "create_data_dir", "write_index", "create_data_url" >>
            ELSE << "make_slug", "create_data_dir", "create_data_url" >>

\* C7 as stated: after a failed index write the slug directory is still there
\* and holds no index.html.
C7_NoIndexAfterFailedWrite ==
    \A c \in Callers :
        IndexWriteFailed(c) =>
            ret[c].call.path \in dirs /\ ~HasIndex(ret[c].call.path)

\* C7 as the code has it: the steps run in the order make_slug,
\* create_data_dir, write_index (only with with_index), create_data_url; a
\* failed index write ends create with the filesystem's exception and no
\* triple, the slug directory stays, and it holds no index.html if the file
\* could not be opened but an empty index.html if the write failed after
\* open had created the file.
C7_FailedWriteLeavesDirectory ==
    \A c \in Callers :
        /\ StepsInOrder(c)
        /\ IndexWriteFailed(c) =>
               /\ ret[c].exc \in FilesystemErrors
               /\ ret[c].call.with_index
               /\ ret[c].call.trace = << "make_slug", "create_data_dir" >>
               /\ ret[c].call.path \in dirs
               /\ ret[c].call.pc = "open" => ~HasIndex(ret[c].call.path)
               /\ ret[c].call.pc = "write" =>
                      /\ HasIndex(ret[c].call.path)
                      /\ index[ret[c].call.path] = <<>>

\* the write of a non-empty page failed after open had created index.html
C7_Witness ==
    /\ IndexWriteFailed(1)
    /\ ret[1].call.pc = "write"
    /\ ret[1].call.html # <<>>
    /\ ret[1].call.slug # <<>>
    /\ index[ret[1].call.path] = <<>>

\* C10: a create that returns a triple returns a non-empty slug, a path that
\* is the child of base_directory named by the slug, never base_directory
\* itself, and never the url base_url + "/".
C10_SlugNeverEmpty ==
    \A c \in Callers :
        ReturnedCreate(c) =>
            /\ ret[c].value.slug # <<>>
            /\ ret[c].value.path = Append(Dist(c).base_directory, ret[c].value.slug)
            /\ ret[c].value.path # Dist(c).base_directory
            /\ ret[c].value.url # Dist(c).base_url \o <<"/">>

-----------------------------------------------------------------------------
(* Claims about the network calls, checked under SpecNet *)

FinishedUrlExists(c) ==
    ret[c].outcome # "none" /\ ret[c].call.op = "url_exists"

Below400(net) == net.kind = "response" /\ net.status < 400

\* C3: url_exists issues one HEAD first; a HEAD status below 400 makes it return
\* true with no GET; otherwise (an error status, or a transport exception) it
\* issues one GET with the timeout and verify setting of the HEAD and returns
\* whether that GET's status is below 400, false if the GET raised.  Nothing is
\* asked twice and no exception leaves the method.
C3_HeadThenOneGet ==
    \A c \in Callers :
        FinishedUrlExists(c) =>
            LET call == ret[c].call
                reqs == call.reqs
                nets == call.nets
            IN  /\ ret[c].outcome = "returned"
                /\ Len(reqs) >= 1
                /\ reqs[1].method = "HEAD"
                /\ reqs[1].timeout = call.timeout_arg
                /\ reqs[1].verify =
                       (IF call.verify_arg = "None" THEN "True" ELSE call.verify_arg)
                /\ IF Below400(nets[1])
                   THEN Len(reqs) = 1 /\ ret[c].value = TRUE
                   ELSE /\ Len(reqs) = 2
                        /\ reqs[2].method = "GET"
                        /\ reqs[2].url = reqs[1].url
                        /\ reqs[2].timeout = reqs[1].timeout
                        /\ reqs[2].verify = reqs[1].verify
                        /\ ret[c].value = Below400(nets[2])

\* HEAD was refused with 405 and the GET that followed came back with 200
C3_Witness ==
    /\ FinishedUrlExists(1)
    /\ Len(ret[1].call.nets) = 2
    /\ ret[1].call.nets[1].kind = "response"
    /\ ret[1].call.nets[1].status = 405
    /\ ret[1].call.nets[2].kind = "response"
    /\ ret[1].call.nets[2].status = 200
    /\ ret[1].value = TRUE

FinishedReadIndexTemplate(c) ==
    ret[c].outcome # "none" /\ ret[c].call.op = "read_index_template"

\* C4: read_index_template never raises; with no template URL it returns None
\* and asks nothing; otherwise it issues one GET and returns None for every
\* transport exception and every error status, and the body of the response
\* only when the status is no error.
C4_TemplateNeverRaises ==
    \A c \in Callers :
        FinishedReadIndexTemplate(c) =>
            LET call == ret[c].call
            IN  /\ ret[c].outcome = "returned"
                /\ IF Dist(c).index_template_url \in {None, <<>>}
                   THEN call.reqs = <<>> /\ ret[c].value = None
                   ELSE /\ Len(call.reqs) = 1
                        /\ call.reqs[1].method = "GET"
                        /\ call.reqs[1].url = Dist(c).index_template_url
                        /\ ret[c].value =
                               IF Below400(call.net) THEN call.net.text ELSE None

\* the template endpoint answered 404 and the call returned None
C4_Witness ==
    /\ FinishedReadIndexTemplate(1)
    /\ ret[1].call.net.kind = "response"
    /\ ret[1].call.net.status = 404
    /\ ret[1].call.net.text # <<>>
    /\ ret[1].outcome = "returned"
    /\ ret[1].value = None

=============================================================================
